---- MODULE Spec2Model ----
(***************************************************************************)
(* MoonTV proxy worker (_worker.js) and the Pages auth worker.             *)
(*                                                                         *)
(* A JavaScript string is a sequence of code points (naturals); U("...")   *)
(* writes an ASCII literal.  A thrown exception is a record                *)
(* [threw |-> TRUE, message |-> ...] travelling up to the enclosing        *)
(* try/catch, or a marker value where a single function fails.             *)
(***************************************************************************)
EXTENDS Integers, Sequences, FiniteSets, TLC

(***************************************************************************)
(* Strings                                                                 *)
(***************************************************************************)
\* the printable ASCII characters U+0020..U+005F and U+0061..U+007E
AsciiLow == " !\"#$%&'()*+,-./0123456789:;<=>?@ABCDEFGHIJKLMNOPQRSTUVWXYZ[\\]^_"

AsciiHigh == "abcdefghijklmnopqrstuvwxyz{|}~"

\* code point of each of those characters
charCode ==
    [c \in {SubSeq(AsciiLow, i, i) : i \in 1..Len(AsciiLow)}
            \cup {SubSeq(AsciiHigh, i, i) : i \in 1..Len(AsciiHigh)} |->
        IF \E i \in 1..Len(AsciiLow) : SubSeq(AsciiLow, i, i) = c
        THEN 31 + (CHOOSE i \in 1..Len(AsciiLow) : SubSeq(AsciiLow, i, i) = c)
        ELSE 96 + (CHOOSE i \in 1..Len(AsciiHigh) : SubSeq(AsciiHigh, i, i) = c)]

\* the JavaScript string written as the ASCII literal s
U(s) == [i \in 1..Len(s) |-> charCode[SubSeq(s, i, i)]]

\* String.prototype.startsWith
startsWith(s, p) == Len(s) >= Len(p) /\ SubSeq(s, 1, Len(p)) = p

\* String.prototype.includes
includes(s, sub) ==
    \E i \in 1..(Len(s) - Len(sub) + 1) : SubSeq(s, i, i + Len(sub) - 1) = sub

\* String.prototype.toLowerCase, on the ASCII letters and on the Latin-1 ones
lowerChar(c) ==
    IF c \in 65..90 \/ (c \in 192..222 /\ c # 215) THEN c + 32 ELSE c

toLowerCase(s) == [i \in 1..Len(s) |-> lowerChar(s[i])]

\* s.slice(i - 1): the suffix of s from its i-th character on
sliceFrom(s, i) == SubSeq(s, i, Len(s))

(***************************************************************************)
(* btoa: base64 of a string of Latin-1 characters                          *)
(***************************************************************************)
\* btoa throws InvalidCharacterError on a character above U+00FF
btoaThrows(s) == \E i \in 1..Len(s) : s[i] > 255

B64Char(v) ==
    IF v < 26 THEN 65 + v
    ELSE IF v < 52 THEN 97 + (v - 26)
    ELSE IF v < 62 THEN 48 + (v - 52)
    ELSE IF v = 62 THEN 43 ELSE 47

RECURSIVE btoa(_)
btoa(s) ==
    IF Len(s) = 0 THEN <<>>
    ELSE IF Len(s) = 1 THEN
        <<B64Char(s[1] \div 4), B64Char((s[1] % 4) * 16), 61, 61>>
    ELSE IF Len(s) = 2 THEN
        <<B64Char(s[1] \div 4), B64Char((s[1] % 4) * 16 + (s[2] \div 16)),
          B64Char((s[2] % 16) * 4), 61>>
    ELSE
        <<B64Char(s[1] \div 4), B64Char((s[1] % 4) * 16 + (s[2] \div 16)),
          B64Char((s[2] % 16) * 4 + (s[3] \div 64)), B64Char(s[3] % 64)>>
        \o btoa(sliceFrom(s, 4))

(***************************************************************************)
(* encodeURIComponent / decodeURIComponent                                 *)
(***************************************************************************)
\* the value both functions are modelled to yield when they throw URIError
URIError == <<-1>>

\* A-Z a-z 0-9 - _ . ! ~ * ' ( )
uriUnreserved(c) ==
    \/ c \in 65..90 \/ c \in 97..122 \/ c \in 48..57
    \/ c \in {45, 95, 46, 33, 126, 42, 39, 40, 41}

Utf8(c) ==
    IF c < 128 THEN <<c>>
    ELSE IF c < 2048 THEN <<192 + (c \div 64), 128 + (c % 64)>>
    ELSE IF c < 65536 THEN
        <<224 + (c \div 4096), 128 + ((c \div 64) % 64), 128 + (c % 64)>>
    ELSE <<240 + (c \div 262144), 128 + ((c \div 4096) % 64),
           128 + ((c \div 64) % 64), 128 + (c % 64)>>

HexDigit(d) == IF d < 10 THEN 48 + d ELSE 55 + d

PctEncode(b) == <<37, HexDigit(b \div 16), HexDigit(b % 16)>>

RECURSIVE PctEncodeAll(_)
PctEncodeAll(bytes) ==
    IF bytes = <<>> THEN <<>>
    ELSE PctEncode(Head(bytes)) \o PctEncodeAll(Tail(bytes))

\* a lone surrogate makes encodeURIComponent throw
RECURSIVE encodeURIComponent(_)
encodeURIComponent(s) ==
    IF s = <<>> THEN <<>>
    ELSE IF s[1] \in 55296..57343 THEN URIError
    ELSE LET rest == encodeURIComponent(Tail(s))
         IN  IF rest = URIError THEN URIError
             ELSE IF uriUnreserved(s[1]) THEN <<s[1]>> \o rest
             ELSE PctEncodeAll(Utf8(s[1])) \o rest

HexVal(c) ==
    IF c \in 48..57 THEN c - 48
    ELSE IF c \in 65..70 THEN c - 55
    ELSE IF c \in 97..102 THEN c - 87
    ELSE -1

\* the byte written as %XX at s[i..i+2], or -1 when that is no escape
PctByte(s, i) ==
    IF i + 2 <= Len(s) /\ s[i] = 37 /\ HexVal(s[i + 1]) >= 0 /\ HexVal(s[i + 2]) >= 0
    THEN 16 * HexVal(s[i + 1]) + HexVal(s[i + 2])
    ELSE -1

\* the continuation byte (10xxxxxx) written at s[i..i+2], or -1
ContByte(s, i) ==
    LET b == PctByte(s, i) IN IF b \in 128..191 THEN b ELSE -1

\* number of bytes of the UTF-8 sequence led by byte b (0: no lead byte)
Utf8Len(b) ==
    IF b \in 192..223 THEN 2
    ELSE IF b \in 224..239 THEN 3
    ELSE IF b \in 240..247 THEN 4
    ELSE 0

\* the code point of the n-byte sequence escaped at s[i..], or -1 when invalid
Utf8CodePoint(s, i, n) ==
    LET b1 == PctByte(s, i)
        b2 == ContByte(s, i + 3)
        b3 == ContByte(s, i + 6)
        b4 == ContByte(s, i + 9)
    IN  IF n = 2 THEN
            IF b2 < 0 THEN -1
            ELSE LET cp == (b1 - 192) * 64 + (b2 - 128)
                 IN  IF cp >= 128 THEN cp ELSE -1
        ELSE IF n = 3 THEN
            IF b2 < 0 \/ b3 < 0 THEN -1
            ELSE LET cp == (b1 - 224) * 4096 + (b2 - 128) * 64 + (b3 - 128)
                 IN  IF cp >= 2048 /\ cp \notin 55296..57343 THEN cp ELSE -1
        ELSE
            IF b2 < 0 \/ b3 < 0 \/ b4 < 0 THEN -1
            ELSE LET cp == (b1 - 240) * 262144 + (b2 - 128) * 4096
                           + (b3 - 128) * 64 + (b4 - 128)
                 IN  IF cp \in 65536..1114111 THEN cp ELSE -1

RECURSIVE DecodeFrom(_, _)
DecodeFrom(s, i) ==
    IF i > Len(s) THEN <<>>
    ELSE IF s[i] # 37 THEN
        LET rest == DecodeFrom(s, i + 1)
        IN  IF rest = URIError THEN URIError ELSE <<s[i]>> \o rest
    ELSE
        LET b == PctByte(s, i)
            n == Utf8Len(b)
            cp == IF b < 0 THEN -1
                  ELSE IF b < 128 THEN b
                  ELSE IF n = 0 THEN -1
                  ELSE Utf8CodePoint(s, i, n)
        IN  IF cp < 0 THEN URIError
            ELSE LET rest == DecodeFrom(s, i + 3 * (IF b < 128 THEN 1 ELSE n))
                 IN  IF rest = URIError THEN URIError ELSE <<cp>> \o rest

decodeURIComponent(s) == DecodeFrom(s, 1)

(***************************************************************************)
(* new URL(s): the WHATWG parser without a base URL, for the URLs the      *)
(* proxy meets: a scheme, then for http, https, ws, wss and ftp an         *)
(* authority (optional userinfo, a domain name, an optional port), a path, *)
(* a query and a fragment.  Not modelled: IPv4/IPv6 literals, IDNA,        *)
(* percent-escapes inside the host, dot segments, tabs and newlines, file: *)
(* and the escaping of userinfo; the inputs below hold none of these.      *)
(***************************************************************************)
\* the value new URL(s) is modelled to yield when it throws TypeError
InvalidURL ==
    [scheme |-> <<>>, userinfo |-> <<>>, host |-> <<>>, port |-> <<>>,
     pathname |-> <<>>, query |-> <<>>, fragment |-> <<>>]

isAlpha(c) == c \in 65..90 \/ c \in 97..122

isDigit(c) == c \in 48..57

Min(S) == CHOOSE x \in S : \A y \in S : x <= y

Max(S) == CHOOSE x \in S : \A y \in S : x >= y

\* index of the first character of s that is in set C, or Len(s) + 1
firstOf(s, C) ==
    LET I == {i \in 1..Len(s) : s[i] \in C} IN IF I = {} THEN Len(s) + 1 ELSE Min(I)

\* index of the first character of s that is not in set C, or Len(s) + 1
firstNotOf(s, C) ==
    LET I == {i \in 1..Len(s) : s[i] \notin C} IN IF I = {} THEN Len(s) + 1 ELSE Min(I)

\* s without its leading and trailing C0 control characters and spaces
trimC0(s) ==
    LET I == {i \in 1..Len(s) : s[i] > 32}
    IN  IF I = {} THEN <<>> ELSE SubSeq(s, Min(I), Max(I))

\* index of the ":" ending the scheme of s, or 0 when s starts with no scheme
schemeEnd(s) ==
    LET i == firstOf(s, {58})
    IN  IF /\ i > 1 /\ i <= Len(s) /\ isAlpha(s[1])
           /\ \A j \in 2..(i - 1) : isAlpha(s[j]) \/ isDigit(s[j]) \/ s[j] \in {43, 45, 46}
        THEN i ELSE 0

SpecialSchemes == {U("http"), U("https"), U("ws"), U("wss"), U("ftp")}

defaultPort(scheme) ==
    IF scheme \in {U("http"), U("ws")} THEN U("80")
    ELSE IF scheme \in {U("https"), U("wss")} THEN U("443")
    ELSE U("21")

\* forbidden domain code points: C0 controls, space, # / : < > ? @ [ \ ] ^ | % DEL
forbiddenDomainChar(c) ==
    c <= 32 \/ c = 127 \/ c \in {35, 47, 58, 60, 62, 63, 64, 91, 92, 93, 94, 124, 37}

RECURSIVE parseDigits(_)
parseDigits(s) ==
    IF s = <<>> THEN 0 ELSE 10 * parseDigits(SubSeq(s, 1, Len(s) - 1)) + (s[Len(s)] - 48)

RECURSIVE numberToString(_)
numberToString(n) ==
    IF n < 10 THEN <<48 + n>> ELSE numberToString(n \div 10) \o <<48 + (n % 10)>>

\* percent-encode the characters of s that are controls, spaces, non-ASCII or in C
RECURSIVE utf8PercentEncode(_, _)
utf8PercentEncode(s, C) ==
    IF s = <<>> THEN <<>>
    ELSE (IF s[1] <= 32 \/ s[1] > 126 \/ s[1] \in C
          THEN PctEncodeAll(Utf8(s[1])) ELSE <<s[1]>>)
         \o utf8PercentEncode(Tail(s), C)

\* path: " # < > ? ` { }   query of a special scheme: " # < > '   fragment: " < > `
PathEncodeSet == {34, 35, 60, 62, 63, 96, 123, 125}

QueryEncodeSet == {34, 35, 60, 62, 39}

FragmentEncodeSet == {34, 60, 62, 96}

backslashToSlash(s) == [i \in 1..Len(s) |-> IF s[i] = 92 THEN 47 ELSE s[i]]

\* the URL of a special scheme, from what follows "scheme:"
parseSpecial(scheme, rest) ==
    LET slashes == firstNotOf(rest, {47, 92})
        r2 == sliceFrom(rest, slashes)
        authEnd == firstOf(r2, {47, 92, 63, 35})
        authority == SubSeq(r2, 1, authEnd - 1)
        after == sliceFrom(r2, authEnd)
        ats == {i \in 1..Len(authority) : authority[i] = 64}
        userinfo == IF ats = {} THEN <<>> ELSE SubSeq(authority, 1, Max(ats))
        hostport == IF ats = {} THEN authority ELSE sliceFrom(authority, Max(ats) + 1)
        colon == firstOf(hostport, {58})
        host == toLowerCase(SubSeq(hostport, 1, colon - 1))
        portStr == sliceFrom(hostport, colon + 1)
        portOk == /\ \A i \in 1..Len(portStr) : isDigit(portStr[i])
                  /\ Len(portStr) <= 5
                  /\ parseDigits(portStr) <= 65535
        port == IF portStr = <<>> THEN <<>>
                ELSE LET p == numberToString(parseDigits(portStr))
                     IN  IF p = defaultPort(scheme) THEN <<>> ELSE p
        hashAt == firstOf(after, {35})
        beforeHash == SubSeq(after, 1, hashAt - 1)
        qAt == firstOf(beforeHash, {63})
        rawPath == backslashToSlash(SubSeq(beforeHash, 1, qAt - 1))
    IN  IF \/ host = <<>>
           \/ \E i \in 1..Len(host) : forbiddenDomainChar(host[i])
           \/ ~portOk
        THEN InvalidURL
        ELSE [scheme |-> scheme,
              userinfo |-> userinfo,
              host |-> host,
              port |-> port,
              pathname |-> IF rawPath = <<>> THEN <<47>>
                           ELSE utf8PercentEncode(rawPath, PathEncodeSet),
              query |-> utf8PercentEncode(sliceFrom(beforeHash, qAt), QueryEncodeSet),
              fragment |-> utf8PercentEncode(sliceFrom(after, hashAt), FragmentEncodeSet)]

\* new URL(input); query and fragment keep their leading "?" and "#"
parseURL(input) ==
    LET s == trimC0(input)
        i == schemeEnd(s)
        scheme == toLowerCase(SubSeq(s, 1, i - 1))
    IN  IF i = 0 THEN InvalidURL
        ELSE IF scheme \in SpecialSchemes THEN parseSpecial(scheme, sliceFrom(s, i + 1))
        ELSE [scheme |-> scheme, userinfo |-> <<>>, host |-> <<>>, port |-> <<>>,
              pathname |-> sliceFrom(s, i + 1), query |-> <<>>, fragment |-> <<>>]

\* URL.prototype.toString / href
href(url) ==
    url.scheme \o <<58>>
    \o (IF url.scheme \in SpecialSchemes
        THEN <<47, 47>> \o url.userinfo \o url.host
             \o (IF url.port = <<>> THEN <<>> ELSE <<58>> \o url.port)
        ELSE <<>>)
    \o url.pathname \o url.query \o url.fragment

\* URL.prototype.origin of a URL of a special scheme
origin(url) ==
    url.scheme \o <<58, 47, 47>> \o url.host
    \o (IF url.port = <<>> THEN <<>> ELSE <<58>> \o url.port)

(***************************************************************************)
(* Headers: a header list, <<name, value>> pairs in insertion order.       *)
(* Names match case-insensitively; iteration sorts, lowercases, combines.  *)
(***************************************************************************)
\* null, as Headers.get and Response.body yield it
Null == <<-2>>

sameName(a, b) == toLowerCase(a) = toLowerCase(b)

\* a < b in code unit order
lexLess(a, b) ==
    LET d == {i \in 1..Len(a) : i > Len(b) \/ a[i] # b[i]}
    IN  IF d = {} THEN Len(a) < Len(b)
        ELSE Min(d) <= Len(b) /\ a[Min(d)] < b[Min(d)]

RECURSIVE joinValues(_)
joinValues(vs) ==
    IF Len(vs) = 1 THEN vs[1] ELSE vs[1] \o <<44, 32>> \o joinValues(Tail(vs))

\* the values of the headers of list h named name, in order
valuesOf(h, name) ==
    LET hit == SelectSeq(h, LAMBDA e : sameName(e[1], name))
    IN  [i \in 1..Len(hit) |-> hit[i][2]]

\* Headers.prototype.get
headersGet(h, name) ==
    IF valuesOf(h, name) = <<>> THEN Null ELSE joinValues(valuesOf(h, name))

\* Headers.prototype.set: the first header of that name gets the value, the others go
headersSet(h, name, value) ==
    LET I == {i \in 1..Len(h) : sameName(h[i][1], name)}
    IN  IF I = {} THEN Append(h, <<name, value>>)
        ELSE LET first == Min(I)
                 kept == [i \in 1..Len(h) |-> IF i = first THEN <<h[i][1], value>> ELSE h[i]]
                 keep(i) == i \notin I \/ i = first
                 idx == SelectSeq([i \in 1..Len(h) |-> i], keep)
             IN  [k \in 1..Len(idx) |-> kept[idx[k]]]

RECURSIVE sortNames(_)
sortNames(S) ==
    IF S = {} THEN <<>>
    ELSE LET m == CHOOSE x \in S : \A y \in S \ {x} : lexLess(x, y)
         IN  <<m>> \o sortNames(S \ {m})

RECURSIVE combine(_, _)
combine(h, names) ==
    IF names = <<>> THEN <<>>
    ELSE LET n == Head(names)
             vs == valuesOf(h, n)
         IN  (IF n = U("set-cookie") THEN [i \in 1..Len(vs) |-> <<n, vs[i]>>]
              ELSE <<<<n, joinValues(vs)>>>>)
             \o combine(h, Tail(names))

\* [...headers]: the entries a Headers object iterates over (sort and combine)
entries(h) == combine(h, sortNames({toLowerCase(h[i][1]) : i \in 1..Len(h)}))

\* new Headers(init), init a sequence of pairs or a Headers object's entries
RECURSIVE newHeaders(_)
newHeaders(init) ==
    IF init = <<>> THEN <<>> ELSE <<Head(init)>> \o newHeaders(Tail(init))

(***************************************************************************)
(* Responses, requests and completions                                     *)
(***************************************************************************)
NoResponse == [status |-> 0, statusText |-> "", headers |-> <<>>, body |-> Null]

NoRequest ==
    [url |-> <<>>, method |-> "", headers |-> <<>>, redirect |-> "",
     hasBody |-> FALSE, body |-> Null]

NoError == [name |-> <<>>, message |-> <<>>]

\* how a piece of an async function ends: it returns a response (at source line
\* `line`), throws, or awaits the fetch of `request`
Return(response, line) ==
    [kind |-> "return", line |-> line, value |-> response, error |-> NoError,
     request |-> NoRequest, actualUrlStr |-> <<>>]

Throw(name, message) ==
    [kind |-> "throw", line |-> 0, value |-> NoResponse,
     error |-> [name |-> name, message |-> message],
     request |-> NoRequest, actualUrlStr |-> <<>>]

Await(request, actualUrlStr) ==
    [kind |-> "await", line |-> 0, value |-> NoResponse, error |-> NoError,
     request |-> request, actualUrlStr |-> actualUrlStr]

\* statuses a Response may not carry a body with
NullBodyStatus == {101, 204, 205, 304}

\* new Response(body, {status, statusText, headers}) on the Workers runtime, which
\* lets a null body status pass with a body of length zero
newResponse(body, status, statusText, headers, line) ==
    IF status \notin 200..599
    THEN Throw(U("RangeError"), U("Responses may only be constructed with status codes in the range 200 to 599, inclusive."))
    ELSE IF body # Null /\ body # <<>> /\ status \in NullBodyStatus
    THEN Throw(U("TypeError"), U("Response with null body status (101, 204, 205, or 304) cannot have a body."))
    ELSE Return([status |-> status, statusText |-> statusText,
                 headers |-> headers, body |-> body], line)

\* JSON.stringify of a string: quotes, with " and \ escaped
RECURSIVE jsonEscape(_)
jsonEscape(s) ==
    IF s = <<>> THEN <<>>
    ELSE (IF s[1] \in {34, 92} THEN <<92, s[1]>> ELSE <<s[1]>>) \o jsonEscape(Tail(s))

\* JSON.stringify({ error: message })
stringifyError(message) ==
    U("{\"error\":\"") \o jsonEscape(message) \o U("\"}")

\* a JSON response that carried the no-cache and CORS headers of the proxied ones
jsonResponseWithAllHeaders(message, status) ==
    [status |-> status, statusText |-> "",
     headers |-> << <<U("Content-Type"), U("application/json; charset=utf-8")>>,
                    <<U("Cache-Control"), U("no-store")>>,
                    <<U("Pragma"), U("no-cache")>>,
                    <<U("Expires"), U("0")>>,
                    <<U("Access-Control-Allow-Origin"), U("*")>>,
                    <<U("Access-Control-Allow-Methods"), U("GET, POST, PUT, DELETE, OPTIONS")>>,
                    <<U("Access-Control-Allow-Headers"), U("*")>> >>,
     body |-> stringifyError(message)]

jsonResponse(message, status) ==
    [status |-> status, statusText |-> "",
     headers |-> << <<U("Content-Type"), U("application/json; charset=utf-8")>>,
                    <<U("Cache-Control"), U("no-store")>> >>,
     body |-> stringifyError(message)]

setNoCacheHeaders(headers) ==
    headersSet(headersSet(headersSet(headers,
        U("Cache-Control"), U("no-store")),
        U("Pragma"), U("no-cache")),
        U("Expires"), U("0"))

\* CORS headers that gave way to an Access-Control-Allow-Origin of the upstream
setCorsHeadersIfAbsent(headers) ==
    headersSet(headersSet(headersSet(headers,
        U("Access-Control-Allow-Origin"),
            IF headersGet(headers, U("Access-Control-Allow-Origin")) = Null THEN U("*")
            ELSE headersGet(headers, U("Access-Control-Allow-Origin"))),
        U("Access-Control-Allow-Methods"), U("GET, POST, PUT, DELETE, OPTIONS")),
        U("Access-Control-Allow-Headers"), U("*"))

setCorsHeaders(headers) ==
    headersSet(headersSet(headersSet(headers,
        U("Access-Control-Allow-Origin"), U("*")),
        U("Access-Control-Allow-Methods"), U("GET, POST, PUT, DELETE, OPTIONS")),
        U("Access-Control-Allow-Headers"), U("*"))

\* the landing page, abridged to its first line
getRootHtml == U("<!DOCTYPE html>")

(***************************************************************************)
(* checkAuth                                                               *)
(***************************************************************************)
\* x || ""
orEmpty(x) == IF x = Null THEN <<>> ELSE x

\* env.PASSWORD is a string; the empty one stands for an unset variable too
checkAuth(request, env) ==
    LET pwd == env.PASSWORD
        auth == orEmpty(headersGet(request.headers, U("Authorization")))
    IN  IF pwd = <<>> THEN [threw |-> FALSE, ok |-> FALSE, reason |-> "PASSWORD not set"]
        ELSE IF btoaThrows(U("admin:") \o pwd)
             THEN [threw |-> TRUE, ok |-> FALSE, reason |-> ""]
        ELSE IF auth # U("Basic ") \o btoa(U("admin:") \o pwd)
             THEN [threw |-> FALSE, ok |-> FALSE, reason |-> "Auth required"]
        ELSE [threw |-> FALSE, ok |-> TRUE, reason |-> ""]

InvalidCharacterError ==
    Throw(U("InvalidCharacterError"),
          U("btoa() can only operate on characters in the Latin1 (ISO/IEC 8859-1) range."))

(***************************************************************************)
(* Target resolution and header filtering                                  *)
(***************************************************************************)
\* a scheme test that ignored letter case
ensureProtocolAnyCase(url, defaultProtocol) ==
    IF url = <<>> THEN defaultProtocol \o U("//")
    ELSE IF startsWith(toLowerCase(url), U("http://")) \/ startsWith(toLowerCase(url), U("https://"))
         THEN url
         ELSE defaultProtocol \o U("//") \o url

ensureProtocol(url, defaultProtocol) ==
    IF url = <<>> THEN defaultProtocol \o U("//")
    ELSE IF startsWith(url, U("http://")) \/ startsWith(url, U("https://"))
         THEN url
         ELSE defaultProtocol \o U("//") \o url

\* pathname.replace(/^\//, "")
stripLeadingSlash(pathname) ==
    IF startsWith(pathname, U("/")) THEN Tail(pathname) ELSE pathname

\* a filter that dropped every name starting with "cf", dash or not
notCfHeaderLoose(name) == ~startsWith(toLowerCase(name), U("cf"))

\* the arrow function handed to filterHeaders: (name) => !lower(name).startsWith("cf-")
notCfHeader(name) == ~startsWith(toLowerCase(name), U("cf-"))

\* filterHeaders(headers, filterFunc) with that function for filterFunc
filterHeaders(headers) ==
    newHeaders(SelectSeq(entries(headers), LAMBDA e : notCfHeader(e[1])))

\* new Request(actualUrlStr, init): throws on an unparsable URL
newRequest(actualUrlStr, init) ==
    LET url == parseURL(actualUrlStr)
    IN  IF url = InvalidURL
        THEN [Throw(U("TypeError"), U("Invalid URL: ") \o actualUrlStr)
                 EXCEPT !.actualUrlStr = actualUrlStr]
        ELSE Await([url |-> href(url), method |-> init.method, headers |-> init.headers,
                    redirect |-> init.redirect, hasBody |-> init.hasBody,
                    body |-> init.body],
                   actualUrlStr)

(***************************************************************************)
(* replaceRelativePaths: text.replace(/((href|src|action)=["'])\/(?!\/)/g,  *)
(*                                    `$1${protocol}//${host}/${origin}/`)  *)
(***************************************************************************)
\* the alternatives of group 2, in the order the regex tries them
RegexAttrs == <<U("href"), U("src"), U("action")>>

\* the regex without its lookahead (?!\/)
matchesWithNoLookahead(text, i, a) ==
    LET j == i + Len(a)
    IN  /\ j + 2 <= Len(text)
        /\ SubSeq(text, i, j - 1) = a
        /\ text[j] = 61
        /\ text[j + 1] \in {34, 39}
        /\ text[j + 2] = 47

\* whether the regex matches at position i of text with attribute a for group 2
matchesWith(text, i, a) ==
    LET j == i + Len(a)
    IN  /\ j + 2 <= Len(text)
        /\ SubSeq(text, i, j - 1) = a
        /\ text[j] = 61
        /\ text[j + 1] \in {34, 39}
        /\ text[j + 2] = 47
        /\ (j + 3 > Len(text) \/ text[j + 3] # 47)

\* group 2 of the match at position i of text, or <<>> when there is none
matchAt(text, i) ==
    LET hits == SelectSeq(RegexAttrs, LAMBDA a : matchesWith(text, i, a))
    IN  IF hits = <<>> THEN <<>> ELSE Head(hits)

\* GetSubstitution: the replacement template with $$ $& $` $' $1 $2 $01 $02 filled in
\* for the match of n characters at position i of text, its group 2 being g2
RECURSIVE getSubstitution(_, _, _, _, _)
getSubstitution(template, text, i, n, g2) ==
    LET g1 == SubSeq(text, i, i + Len(g2) + 1)
        next(k) == getSubstitution(sliceFrom(template, k), text, i, n, g2)
        c2 == IF Len(template) >= 2 THEN template[2] ELSE 0
        c3 == IF Len(template) >= 3 THEN template[3] ELSE 0
    IN  IF template = <<>> THEN <<>>
        ELSE IF template[1] # 36 THEN <<template[1]>> \o next(2)
        ELSE IF c2 = 36 THEN <<36>> \o next(3)
        ELSE IF c2 = 38 THEN SubSeq(text, i, i + n - 1) \o next(3)
        ELSE IF c2 = 96 THEN SubSeq(text, 1, i - 1) \o next(3)
        ELSE IF c2 = 39 THEN sliceFrom(text, i + n) \o next(3)
        ELSE IF c2 = 48 /\ c3 = 49 THEN g1 \o next(4)
        ELSE IF c2 = 48 /\ c3 = 50 THEN g2 \o next(4)
        ELSE IF c2 = 49 THEN g1 \o next(3)
        ELSE IF c2 = 50 THEN g2 \o next(3)
        ELSE <<36>> \o next(2)

\* String.prototype.replace with the global regex, from position i on
RECURSIVE replaceFrom(_, _, _)
replaceFrom(text, i, template) ==
    IF i > Len(text) THEN <<>>
    ELSE LET g2 == matchAt(text, i)
             n == Len(g2) + 3
         IN  IF g2 = <<>> THEN <<text[i]>> \o replaceFrom(text, i + 1, template)
             ELSE getSubstitution(template, text, i, n, g2)
                  \o replaceFrom(text, i + n, template)

replaceRelativePaths(text, protocol, host, origin_) ==
    replaceFrom(text, 1,
        U("$1") \o protocol \o U("//") \o host \o U("/") \o origin_ \o U("/"))

\* response.text(): a null body reads as the empty string
text(response) == IF response.body = Null THEN <<>> ELSE response.body

handleHtmlContent(response, protocol, host, actualUrlStr) ==
    replaceRelativePaths(text(response), protocol, host, origin(parseURL(actualUrlStr)))

(***************************************************************************)
(* handleRedirect                                                          *)
(***************************************************************************)
\* a || b on strings and null
orElse(a, b) == IF a = Null \/ a = <<>> THEN b ELSE a

\* a rewrite that encoded the Location as the upstream wrote it
rewriteLocationVerbatim(locationValue) ==
    LET encoded == encodeURIComponent(locationValue)
    IN  IF encoded = URIError THEN URIError ELSE U("/") \o encoded

\* the Location the redirect is rewritten to, URIError when the encoding throws
rewriteLocation(locationValue) ==
    LET locUrl == parseURL(locationValue)
        encoded == IF locUrl # InvalidURL THEN encodeURIComponent(href(locUrl))
                   ELSE encodeURIComponent(locationValue)
    IN  IF encoded = URIError THEN URIError ELSE U("/") \o encoded

handleRedirect(response) ==
    LET headers == newHeaders(entries(response.headers))
        locationValue == orElse(headersGet(headers, U("location")),
                                headersGet(headers, U("Location")))
        finish(h, line) ==
            LET r == newResponse(response.body, response.status, response.statusText, h, line)
            IN  IF r.kind = "throw" THEN r
                ELSE Return([r.value EXCEPT !.headers = setCorsHeaders(setNoCacheHeaders(@))], line)
    IN  IF locationValue = Null \/ locationValue = <<>> THEN finish(headers, 160)
        ELSE IF rewriteLocation(locationValue) = URIError
             THEN Throw(U("URIError"), U("URI malformed"))
        ELSE finish(headersSet(headers, U("Location"), rewriteLocation(locationValue)), 185)

(***************************************************************************)
(* handleRequest, cut at its await of fetch                                *)
(***************************************************************************)
RedirectStatuses == {301, 302, 303, 307, 308}

\* a test that let HEAD carry a body
bodylessGetOnly(method) == method = "GET"

\* method === "GET" || method === "HEAD": the request is sent without a body
bodyless(method) == method \in {"GET", "HEAD"}

\* lines 36-100: up to the call of fetch
beforeFetch(request, env) ==
    LET auth == checkAuth(request, env)
        url == request.url
        decoded == decodeURIComponent(stripLeadingSlash(url.pathname))
        actualUrlStr == ensureProtocol(decoded, url.protocol) \o url.search
        method == IF request.method = "" THEN "GET" ELSE request.method
        init == [headers |-> filterHeaders(request.headers),
                 method |-> method,
                 redirect |-> "manual",
                 hasBody |-> ~bodyless(method),
                 body |-> IF ~bodyless(method) THEN request.body ELSE Null]
    IN  IF auth.threw THEN InvalidCharacterError
        ELSE IF ~auth.ok THEN
            IF auth.reason = "PASSWORD not set"
            THEN Return([status |-> 500, statusText |-> "",
                         headers |-> << <<U("Content-Type"), U("text/plain; charset=utf-8")>> >>,
                         body |-> U("PASSWORD not set in Cloudflare Pages/Workers environment variables.")],
                        44)
            ELSE Return([status |-> 401, statusText |-> "",
                         headers |-> << <<U("WWW-Authenticate"), U("Basic realm=\"Protected\"")>> >>,
                         body |-> U("Auth required")],
                        52)
        ELSE IF url.pathname = U("/")
        THEN Return([status |-> 200, statusText |-> "",
                     headers |-> << <<U("Content-Type"), U("text/html; charset=utf-8")>>,
                                    <<U("Cache-Control"), U("no-store")>> >>,
                     body |-> getRootHtml],
                    62)
        ELSE IF decoded = URIError THEN Throw(U("URIError"), U("URI malformed"))
        ELSE newRequest(actualUrlStr, init)

\* lines 102-127: from the upstream response on
afterFetch(request, actualUrlStr, response) ==
    LET url == request.url
        ct == orEmpty(headersGet(response.headers, U("Content-Type")))
        body == IF includes(ct, U("text/html"))
                THEN handleHtmlContent(response, url.protocol, url.host, actualUrlStr)
                ELSE response.body
        modifiedResponse ==
            newResponse(body, response.status, response.statusText,
                        newHeaders(entries(response.headers)), 127)
    IN  IF response.status \in RedirectStatuses THEN handleRedirect(response)
        ELSE IF modifiedResponse.kind = "throw" THEN modifiedResponse
        ELSE Return([modifiedResponse.value EXCEPT
                        !.headers = setCorsHeaders(setNoCacheHeaders(@))], 127)

\* String(error) of an Error: its name, then ": " and its message when it has one
errorToString(error) ==
    IF error.message = <<>> THEN error.name
    ELSE error.name \o U(": ") \o error.message

\* a handler without its try and catch
catchNothing(completion) == completion

\* lines 128-135: the catch clause around all of the above
catch(completion) ==
    IF completion.kind # "throw" THEN completion
    ELSE [Return(jsonResponse(IF completion.error.message # <<>>
                              THEN completion.error.message
                              ELSE errorToString(completion.error),
                              500),
                 129)
             EXCEPT !.actualUrlStr = completion.actualUrlStr]

(***************************************************************************)
(* The Pages worker (export default { fetch }) and the landing page script *)
(***************************************************************************)
\* fetch(request, env) of the Pages worker; assets is what env.ASSETS.fetch answers
pagesFetch(request, env, assets) ==
    LET pwd == env.PASSWORD
        auth == orEmpty(headersGet(request.headers, U("Authorization")))
    IN  IF pwd = <<>>
        THEN Return([status |-> 500, statusText |-> "",
                     headers |-> << <<U("Content-Type"), U("text/plain; charset=utf-8")>> >>,
                     body |-> U("PASSWORD not set in Cloudflare Pages environment.")],
                    6)
        ELSE IF btoaThrows(U("admin:") \o pwd) THEN InvalidCharacterError
        ELSE IF auth # U("Basic ") \o btoa(U("admin:") \o pwd)
        THEN Return([status |-> 401, statusText |-> "",
                     headers |-> << <<U("WWW-Authenticate"), U("Basic realm=\"Protected\"")>> >>,
                     body |-> U("Auth required")],
                    17)
        ELSE IF env.ASSETS THEN Return(assets, 26)
        ELSE Return([status |-> 500, statusText |-> "", headers |-> <<>>,
                     body |-> U("ASSETS binding not found.")],
                    30)

\* WhiteSpace and LineTerminator code points, which String.prototype.trim strips
JsWhiteSpace ==
    {9, 10, 11, 12, 13, 32, 160, 5760, 8232, 8233, 8239, 8287, 12288, 65279}
    \cup (8192..8202)

trim(s) ==
    LET I == {i \in 1..Len(s) : s[i] \notin JsWhiteSpace}
    IN  IF I = {} THEN <<>> ELSE SubSeq(s, Min(I), Max(I))

\* redirectToProxy: the pathname of the URL the landing page opens for the typed
\* address (the browser resolves a lone "." or ".." segment to the root)
redirectToProxy(targetUrl) ==
    LET encoded == encodeURIComponent(trim(targetUrl))
    IN  IF encoded \in {U("."), U("..")} THEN U("/") ELSE U("/") \o encoded

(***************************************************************************)
(* Bounds and inputs                                                       *)
(***************************************************************************)
MaxSecretLen == 2
MaxPathParts == 2
MaxTypedParts == 2
MaxHeaders == 2
MaxLocationParts == 2
MaxUpstreamHeaders == 2
MaxHtmlParts == 2

\* the strings made of at most n of the fragments F
RECURSIVE Concats(_, _)
Concats(F, n) ==
    IF n = 0 THEN {<<>>}
    ELSE LET S == Concats(F, n - 1) IN S \cup {s \o f : s \in S, f \in F}

\* the lists of at most n of the elements P
RECURSIVE Lists(_, _)
Lists(P, n) ==
    IF n = 0 THEN {<<>>}
    ELSE LET S == Lists(P, n - 1) IN S \cup {Append(s, e) : s \in S, e \in P}

Hdr(name, value) == <<U(name), U(value)>>

\* env.PASSWORD: unset, or characters p, w, e-acute (Latin-1) and U+5BC6 (not Latin-1)
Secrets == Concats({U("p"), U("w"), <<233>>, <<23494>>}, MaxSecretLen)

\* Authorization headers a client may send; the base64 texts are those of
\* admin:pw, admin:p, admin:w, admin:pp, admin:, pw, Admin:pw,
\* admin:p<E9> and admin:<E9>
AuthHeaders ==
    { << >>,
      << Hdr("Authorization", "Basic YWRtaW46cHc=") >>,
      << Hdr("authorization", "Basic YWRtaW46cA==") >>,
      << Hdr("Authorization", "Basic YWRtaW46dw==") >>,
      << Hdr("Authorization", "Basic YWRtaW46cHA=") >>,
      << Hdr("Authorization", "Basic YWRtaW46") >>,
      << Hdr("Authorization", "Basic cHc=") >>,
      << Hdr("Authorization", "Basic QWRtaW46cHc=") >>,
      << Hdr("Authorization", "Basic YWRtaW46cOk=") >>,
      << Hdr("Authorization", "Basic YWRtaW466Q==") >>,
      << Hdr("Authorization", "basic YWRtaW46cHc=") >>,
      << Hdr("Authorization", "Basic YWRtaW46cHc") >>,
      << Hdr("Authorization", "Basic  YWRtaW46cHc=") >>,
      << Hdr("Authorization", "") >> }

\* the request of a signed-in browser for https://proxy.example/https://example.com/
GoodAuth == Hdr("Authorization", "Basic YWRtaW46cHc=")

BaseEnv == [PASSWORD |-> U("pw"), ASSETS |-> TRUE]

BaseUrl ==
    [protocol |-> U("https:"), host |-> U("proxy.example"),
     pathname |-> U("/https://example.com/"), search |-> <<>>]

BaseRequest ==
    [method |-> "GET", url |-> BaseUrl,
     headers |-> <<GoodAuth, Hdr("Accept", "*/*")>>, body |-> Null]

\* what the origin server does when asked: it answers, or the fetch fails
Answers(response) == [fails |-> FALSE, error |-> NoError, response |-> response]

Fails(name, message) ==
    [fails |-> TRUE, error |-> [name |-> U(name), message |-> U(message)],
     response |-> NoResponse]

BaseResponse ==
    [status |-> 200, statusText |-> "OK",
     headers |-> << Hdr("Content-Type", "text/plain") >>, body |-> U("hello")]

FetchFailures ==
    { Fails("TypeError", "Network connection lost."),
      Fails("Error", "internal error \"1016\""),
      Fails("TypeError", "") }

Protocols == {U("http:"), U("https:")}

\* pathnames as the runtime's URL parser leaves them: "/", then no raw space, ?, #
PathFragments ==
    { U("https://"), U("HTTP://"), U("https%3A%2F%2F"),
      U("example.com"), U("%"), U("x/%C3%A9"), U("%C3"), U("%20"), U(":") }

Pathnames == {U("/") \o p : p \in Concats(PathFragments, MaxPathParts)}

Searches == {<<>>, U("?u=%2F%41&b=c+d")}

\* addresses typed into the landing page
TypedFragments ==
    { U("https://"), U("http://"), U("HTTP://"), U("Https://"),
      U("example.com"), U("A.b:80"), U("a.b/%41 ") \o <<233>> \o U("?e=f&g#h"),
      U(" "), U("/") }

TypedUrls == Concats(TypedFragments, MaxTypedParts) \ {<<>>}

\* request headers as they arrive, before the Authorization header
HeaderPool ==
    { Hdr("CF-Ray", "8a1"), Hdr("cf-connecting-ip", "1.2.3.4"),
      Hdr("Accept", "text/html"), Hdr("accept", "*/*"), Hdr("X-CF-Id", "7"),
      Hdr("cfx", "1"), Hdr("cf-", "3") }

LocationFragments ==
    { U("https://"), U("HTTPS://"), U("http:"), U("example.com/n") \o <<233>>,
      U("Example.com"), U("/login?q=1 2#f"), U(":443") }

Locations == Concats(LocationFragments, MaxLocationParts)

UpstreamHeaderPool ==
    { Hdr("Content-Type", "text/html; charset=utf-8"), Hdr("content-type", "text/plain"),
      Hdr("Content-Type", "Text/HTML"), Hdr("Cache-Control", "max-age=60"),
      Hdr("Access-Control-Allow-Origin", "https://a.b"), Hdr("Set-Cookie", "a=1"),
      Hdr("Location", "https://example.com/new") }

UpstreamStatuses == {200, 204, 302, 304, 404}

UpstreamBodies == {Null, U("hello"), U("<a href=\"/x\">x</a>")}

HtmlFragments ==
    { U("href=\"/"), U("src='/"), U("action=\"/"), U("srcset=\"/"),
      U("HREF=\"/"), U("href=\""), U("data-"), U("form"), U("/") }

HtmlBodies == Concats(HtmlFragments, MaxHtmlParts)

VARIABLES
    entry,          \* which script is deployed: "worker" (_worker.js) or "pages"
    env,            \* the bindings: PASSWORD and, for Pages, ASSETS
    typed,          \* the address typed into the landing page, Null when none was
    request,        \* the inbound request
    upstream,       \* what the origin server (or ASSETS) does when asked
    pc,             \* "page", "start", "fetch" (awaiting the fetch) or "done"
    actualUrlStr,   \* handleRequest's local, kept across the await
    sent,           \* the outbound requests fetch was called with, in order
    response,       \* the response handed to the client
    line,           \* the source line of the return statement that produced it
    uncaught        \* the error the handler threw to the runtime

vars ==
    <<entry, env, typed, request, upstream, pc, actualUrlStr, sent, response,
      line, uncaught>>

\* every run starts with nothing sent and nothing answered
Fresh ==
    /\ actualUrlStr = <<>>
    /\ sent = <<>>
    /\ response = NoResponse
    /\ line = 0
    /\ uncaught = NoError

\* any secret against any Authorization header, on both scripts
InitAuth ==
    /\ entry \in {"worker", "pages"}
    /\ env \in [PASSWORD : Secrets, ASSETS : BOOLEAN]
    /\ entry = "worker" => env.ASSETS
    /\ typed = Null
    /\ \E auth \in AuthHeaders, path \in {U("/"), U("/https://example.com/")} :
          /\ entry = "pages" => path = U("/")
          /\ request = [BaseRequest EXCEPT !.headers = auth \o <<Hdr("Accept", "*/*")>>,
                                           !.url.pathname = path]
    /\ upstream = Answers(BaseResponse)
    /\ pc = "start"
    /\ Fresh

\* any target path, query, scheme and method, from a signed-in client
InitTarget ==
    /\ entry = "worker"
    /\ env = BaseEnv
    /\ typed = Null
    /\ \E path \in Pathnames, search \in Searches, protocol \in Protocols :
          request = [BaseRequest EXCEPT !.url.pathname = path, !.url.search = search,
                                        !.url.protocol = protocol]
    /\ upstream \in {Answers(BaseResponse), Fails("TypeError", "Network connection lost.")}
    /\ request.url.search # <<>> <=> request.url.protocol = U("http:")
    /\ upstream.fails => request.url.search = <<>>
    /\ pc = "start"
    /\ Fresh

InitMethod ==
    /\ entry = "worker"
    /\ env = BaseEnv
    /\ typed = Null
    /\ \E m \in {"GET", "HEAD", "POST", "PUT", "DELETE", "OPTIONS"},
          body \in {Null, U("a=1"), <<>>},
          path \in {U("/"), U("/https://example.com/"), U("/%")} :
          /\ m \in {"GET", "HEAD"} => body = Null
          /\ request = [BaseRequest EXCEPT !.method = m, !.body = body,
                                           !.url.pathname = path]
    /\ upstream \in {Answers(BaseResponse), Answers([BaseResponse EXCEPT !.status = 302]),
                     Answers([BaseResponse EXCEPT !.status = 503])} \cup FetchFailures
    /\ pc = "start"
    /\ Fresh

\* an address typed into the landing page of a signed-in browser
InitPage ==
    /\ entry = "worker"
    /\ env = BaseEnv
    /\ typed \in TypedUrls
    /\ \E protocol \in Protocols :
          request = [BaseRequest EXCEPT !.url.pathname = U("/"), !.url.protocol = protocol]
    /\ upstream = Answers(BaseResponse)
    /\ pc = "page"
    /\ Fresh

InitHeaders ==
    /\ entry = "worker"
    /\ env = BaseEnv
    /\ typed = Null
    /\ \E hs \in Lists(HeaderPool, MaxHeaders), k \in 0..MaxHeaders :
          /\ k <= Len(hs)
          /\ request = [BaseRequest EXCEPT
                          !.headers = SubSeq(hs, 1, k) \o <<GoodAuth>> \o sliceFrom(hs, k + 1)]
    /\ upstream = Answers(BaseResponse)
    /\ pc = "start"
    /\ Fresh

InitRedirect ==
    /\ entry = "worker"
    /\ env = BaseEnv
    /\ typed = Null
    /\ request = BaseRequest
    /\ \E status \in RedirectStatuses \cup {300}, name \in {U("Location"), U("location")},
          loc \in Locations,
          more \in {<<>>, << Hdr("Cache-Control", "max-age=60"), Hdr("Set-Cookie", "a=1") >>} :
          /\ (name = U("location") \/ more # <<>>) => status = 302
          /\ name = U("location") => more = <<>>
          /\ upstream = Answers([status |-> status, statusText |-> "Redirect",
                                 headers |-> more \o << <<name, loc>> >>,
                                 body |-> U("moved")])
    /\ pc = "start"
    /\ Fresh

InitUpstream ==
    /\ entry = "worker"
    /\ env = BaseEnv
    /\ typed = Null
    /\ request = BaseRequest
    /\ \E status \in UpstreamStatuses, hs \in Lists(UpstreamHeaderPool, MaxUpstreamHeaders),
          body \in UpstreamBodies :
          /\ status \in NullBodyStatus => body = Null
          /\ status \notin NullBodyStatus \cup {200} => body = U("hello")
          /\ upstream = Answers([status |-> status, statusText |-> "Upstream",
                                 headers |-> hs, body |-> body])
    /\ pc = "start"
    /\ Fresh

InitHtml ==
    /\ entry = "worker"
    /\ env = BaseEnv
    /\ typed = Null
    /\ \E path \in {U("/https://example.com/"), U("/A.b%3A8080%2Fc%3Fd")} :
          request = [BaseRequest EXCEPT
                        !.url.pathname = path,
                        !.url.protocol = IF path = U("/https://example.com/")
                                         THEN U("https:") ELSE U("http:")]
    /\ \E body \in HtmlBodies :
          upstream = Answers([status |-> 200, statusText |-> "OK",
                              headers |-> << Hdr("Content-Type", "text/html; charset=utf-8") >>,
                              body |-> body])
    /\ pc = "start"
    /\ Fresh

Init ==
    \/ InitAuth
    \/ InitTarget
    \/ InitMethod
    \/ InitPage
    \/ InitHeaders
    \/ InitRedirect
    \/ InitUpstream
    \/ InitHtml

(***************************************************************************)
(* Actions                                                                 *)
(***************************************************************************)
\* a completion that is not an await ends the handler
Finish(completion) ==
    /\ pc' = "done"
    /\ response' = completion.value
    /\ line' = completion.line
    /\ uncaught' = completion.error

\* the landing page opens the proxy URL of the typed address
RedirectToProxy ==
    /\ pc = "page"
    /\ encodeURIComponent(trim(typed)) # URIError
    /\ request' = [request EXCEPT !.url.pathname = redirectToProxy(typed)]
    /\ pc' = "start"
    /\ UNCHANGED <<entry, env, typed, upstream, actualUrlStr, sent, response, line, uncaught>>

\* handleRequest up to its first await: it returns, or calls fetch
HandleRequest ==
    /\ pc = "start"
    /\ entry = "worker"
    /\ LET completion == catch(beforeFetch(request, env))
       IN  IF completion.kind = "await"
           THEN /\ sent' = Append(sent, completion.request)
                /\ actualUrlStr' = completion.actualUrlStr
                /\ pc' = "fetch"
                /\ UNCHANGED <<response, line, uncaught>>
           ELSE /\ Finish(completion)
                /\ actualUrlStr' = completion.actualUrlStr
                /\ UNCHANGED sent
    /\ UNCHANGED <<entry, env, typed, request, upstream>>

\* the fetch resolves with the upstream response; handleRequest runs to its end
FetchResolves ==
    /\ pc = "fetch"
    /\ ~upstream.fails
    /\ Finish(catch(afterFetch(request, actualUrlStr, upstream.response)))
    /\ UNCHANGED <<entry, env, typed, request, upstream, actualUrlStr, sent>>

\* the fetch rejects; the catch clause answers
FetchRejects ==
    /\ pc = "fetch"
    /\ upstream.fails
    /\ Finish(catch(Throw(upstream.error.name, upstream.error.message)))
    /\ UNCHANGED <<entry, env, typed, request, upstream, actualUrlStr, sent>>

\* the Pages worker's fetch handler, ASSETS answering as the origin does
PagesFetch ==
    /\ pc = "start"
    /\ entry = "pages"
    /\ Finish(pagesFetch(request, env,
                         IF upstream.fails THEN [BaseResponse EXCEPT !.status = 404]
                         ELSE upstream.response))
    /\ UNCHANGED <<entry, env, typed, request, upstream, actualUrlStr, sent>>

Next ==
    \/ RedirectToProxy
    \/ HandleRequest
    \/ FetchResolves
    \/ FetchRejects
    \/ PagesFetch

Spec == Init /\ [][Next]_vars

(***************************************************************************)
(* Properties                                                              *)
(***************************************************************************)
Done == pc = "done"

Worker == entry = "worker"

\* the header of the final response, and of the upstream response
got(name) == headersGet(response.headers, U(name))

sentUp(name) == headersGet(upstream.response.headers, U(name))

\* the inbound Authorization header is "Basic " + base64("admin:" + secret)
HeaderMatches ==
    /\ ~btoaThrows(U("admin:") \o env.PASSWORD)
    /\ orEmpty(headersGet(request.headers, U("Authorization")))
         = U("Basic ") \o btoa(U("admin:") \o env.PASSWORD)

Authorized == env.PASSWORD # <<>> /\ HeaderMatches

IsConfig500 ==
    /\ response.status = 500
    /\ got("Content-Type") = U("text/plain; charset=utf-8")
    /\ startsWith(response.body, U("PASSWORD not set"))

Is401 ==
    /\ response.status = 401
    /\ got("WWW-Authenticate") = U("Basic realm=\"Protected\"")

\* the landing page or a static asset was served, or a fetch was issued
Served == sent # <<>> \/ line \in {62, 26}

\* C1: a request gets past the auth gate iff the secret is non-empty and the
\* Authorization header is exactly "Basic " + base64("admin:" + secret); without a
\* secret every request is answered 500 in plain text, with a secret and a missing
\* or different header 401 with WWW-Authenticate: Basic realm="Protected"; a
\* rejected request causes no fetch.
C1_AuthGate ==
    Done =>
        /\ Served => Authorized
        /\ Authorized => ~IsConfig500 /\ ~Is401 /\ uncaught = NoError
        /\ env.PASSWORD = <<>> => IsConfig500 /\ sent = <<>>
        /\ (env.PASSWORD # <<>> /\ ~HeaderMatches) => Is401 /\ sent = <<>>

NoCacheSet ==
    /\ got("Cache-Control") = U("no-store")
    /\ got("Pragma") = U("no-cache")
    /\ got("Expires") = U("0")

CorsSet ==
    /\ got("Access-Control-Allow-Origin") = U("*")
    /\ got("Access-Control-Allow-Methods") = U("GET, POST, PUT, DELETE, OPTIONS")
    /\ got("Access-Control-Allow-Headers") = U("*")

\* C2 as stated: every error response of handleRequest (500 for a missing secret,
\* 401, 500 JSON) carries Cache-Control: no-store, Pragma: no-cache and Expires: 0,
\* and the 500 JSON error also carries the three CORS headers.
C2_AllErrorsNoCache ==
    (Done /\ Worker /\ line \in {44, 52, 129}) =>
        /\ NoCacheSet
        /\ line = 129 => CorsSet

\* C2 as amended: the 500 for a missing secret carries Content-Type alone, the 401
\* WWW-Authenticate alone, and the 500 JSON error Content-Type and Cache-Control:
\* no-store alone: no Pragma, no Expires, and no CORS header on any of the three.
C2_ErrorHeaders ==
    (Done /\ Worker) =>
        /\ line = 44 =>
              entries(response.headers)
                = << Hdr("content-type", "text/plain; charset=utf-8") >>
        /\ line = 52 =>
              entries(response.headers)
                = << Hdr("www-authenticate", "Basic realm=\"Protected\"") >>
        /\ line = 129 =>
              entries(response.headers)
                = << Hdr("cache-control", "no-store"),
                     Hdr("content-type", "application/json; charset=utf-8") >>
        /\ response.status \in {401, 500} /\ line \in {44, 52, 129} =>
              /\ got("Pragma") = Null /\ got("Expires") = Null
              /\ got("Access-Control-Allow-Origin") = Null
              /\ got("Access-Control-Allow-Methods") = Null
              /\ got("Access-Control-Allow-Headers") = Null

\* a fetch failed and the client got the JSON error
C2_Witness ==
    /\ Done /\ Worker /\ line = 129
    /\ upstream.fails /\ Len(sent) = 1
    /\ got("Cache-Control") = U("no-store")
    /\ got("Pragma") = Null

\* the upstream answered with a redirect that has a Location parsing as a URL
RedirectWithUrl ==
    /\ Done /\ Worker /\ ~upstream.fails /\ Len(sent) = 1
    /\ upstream.response.status \in {301, 302, 303, 307, 308}
    /\ sentUp("Location") \notin {Null, <<>>}
    /\ parseURL(sentUp("Location")) # InvalidURL

\* C3 as stated: for a redirect whose Location L parses as an absolute URL, the
\* proxy keeps the status and answers Location = "/" + percentEncode(L), which
\* stripped of its "/" and percent-decoded is exactly L.
C3_LocationIsEncodedL ==
    RedirectWithUrl =>
        /\ response.status = upstream.response.status
        /\ got("Location") = U("/") \o encodeURIComponent(sentUp("Location"))
        /\ decodeURIComponent(Tail(got("Location"))) = sentUp("Location")

\* C3 as amended: the proxy keeps the status and answers Location = "/" +
\* percentEncode(N), N the serialization of the parsed L (scheme and host in lower
\* case, default port dropped, empty path "/", spaces and non-ASCII escaped);
\* stripped and decoded the Location is N, which parses to the same URL as L and
\* is L itself when L is written in that form, as https://example.com/new is.
C3_LocationIsEncodedHref ==
    RedirectWithUrl =>
        LET L == sentUp("Location")
            N == href(parseURL(L))
        IN  /\ line = 185
            /\ response.status = upstream.response.status
            /\ got("Location") = U("/") \o encodeURIComponent(N)
            /\ decodeURIComponent(Tail(got("Location"))) = N
            /\ parseURL(decodeURIComponent(Tail(got("Location")))) = parseURL(L)
            /\ L = U("https://example.com/new") =>
                  got("Location") = U("/https%3A%2F%2Fexample.com%2Fnew")

\* a 301..308 with Location: HTTPS://Example.com is rewritten to the normal form
C3_Witness ==
    /\ RedirectWithUrl
    /\ sentUp("Location") = U("HTTPS://Example.com")
    /\ got("Location") = U("/https%3A%2F%2Fexample.com%2F")

\* C4: for every absolute http or https URL u, an authorized request for
\* "/" + percentEncode(u) with no query is forwarded to exactly u, whatever the
\* inbound scheme.
C4_TargetRoundTrip ==
    LET u == parseURL(typed)
    IN  (/\ Worker /\ pc \in {"fetch", "done"} /\ typed # Null
         /\ u # InvalidURL /\ u.scheme \in {U("http"), U("https")}
         /\ request.url.pathname = U("/") \o encodeURIComponent(trim(typed))
         /\ request.url.search = <<>>)
        => /\ Len(sent) = 1
           /\ sent[1].url = href(u)

\* the inbound path decodes, so a target is resolved
Resolves ==
    /\ Worker /\ pc \in {"fetch", "done"} /\ Authorized
    /\ request.url.pathname # U("/")
    /\ decodeURIComponent(Tail(request.url.pathname)) # URIError

\* C5: the resolved target is the percent-decoded path without its leading "/",
\* prefixed with requestScheme + "//" exactly when the decoded string starts with
\* neither "http://" nor "https://", followed by the query string verbatim; so
\* the target always has a scheme.
C5_ResolvedTarget ==
    Resolves =>
        LET d == decodeURIComponent(Tail(request.url.pathname))
            hasScheme(x) ==
                \/ (Len(x) >= 7 /\ SubSeq(x, 1, 7) = U("http://"))
                \/ (Len(x) >= 8 /\ SubSeq(x, 1, 8) = U("https://"))
        IN  /\ actualUrlStr = (IF hasScheme(d) THEN d ELSE request.url.protocol \o U("//") \o d)
                              \o request.url.search
            /\ hasScheme(actualUrlStr)
            /\ sent # <<>> => sent[1].url = href(parseURL(actualUrlStr))

\* http://proxy.example/example.com?u=%2F%41&b=c+d is resolved to the inbound scheme
C5_Witness ==
    /\ Resolves
    /\ request.url.pathname = U("/example.com")
    /\ request.url.protocol = U("http:")
    /\ actualUrlStr = U("http://example.com?u=%2F%41&b=c+d")
    /\ Len(sent) = 1

\* the upstream answered HTML that was rewritten
HtmlRewritten ==
    /\ Done /\ Worker /\ ~upstream.fails /\ line = 127
    /\ includes(orEmpty(sentUp("Content-Type")), U("text/html"))

\* position i of text starts href, src or action, then = and a quote, then one "/"
RootRelativeAt(t, i) ==
    \E a \in {U("href"), U("src"), U("action")}, q \in {34, 39} :
        LET m == a \o <<61, q, 47>>
        IN  /\ i + Len(m) - 1 <= Len(t)
            /\ SubSeq(t, i, i + Len(m) - 1) = m
            /\ (i + Len(m) <= Len(t) => t[i + Len(m)] # 47)

\* the length of the attribute name matched at position i
NameLenAt(t, i) == CHOOSE n \in {3, 4, 6} : t[i + n] = 61 /\ t[i + n + 1] \in {34, 39}

\* text t with <scheme>//<host>/<origin>/ put in place of the "/" of every such match
RECURSIVE Rerooted(_, _, _)
Rerooted(t, i, root) ==
    IF i > Len(t) THEN <<>>
    ELSE IF i > 2 /\ \E n \in {3, 4, 6} :
                        i - n - 2 >= 1 /\ RootRelativeAt(t, i - n - 2) /\ NameLenAt(t, i - n - 2) = n
         THEN root \o Rerooted(t, i + 1, root)
         ELSE <<t[i]>> \o Rerooted(t, i + 1, root)

isNameChar(c) == isAlpha(c) \/ isDigit(c) \/ c \in {45, 95, 58, 46}

\* C6 as stated: every href, src or action followed by =" or =' and a single "/"
\* is re-rooted to <scheme>//<host>/<origin>/, protocol-relative references are
\* left alone, nothing else changes, and only those three attributes are
\* rewritten.
C6_OnlyThreeAttributes ==
    HtmlRewritten =>
        LET t == text(upstream.response)
            root == request.url.protocol \o U("//") \o request.url.host \o U("/")
                    \o origin(parseURL(actualUrlStr)) \o U("/")
        IN  /\ response.body = Rerooted(t, 1, root)
            /\ \A i \in 1..Len(t) :
                  RootRelativeAt(t, i) => (i = 1 \/ ~isNameChar(t[i - 1]))

\* C6 as amended: the rewrite is textual and case-sensitive: every occurrence of
\* the text href, src or action followed by =" or =' and a single "/" is
\* re-rooted, also where it ends a longer attribute name (data-src, formaction)
\* or stands outside a tag; protocol-relative references are left alone and
\* nothing else in the body changes.
C6_TextualRewrite ==
    HtmlRewritten =>
        LET t == text(upstream.response)
            root == request.url.protocol \o U("//") \o request.url.host \o U("/")
                    \o origin(parseURL(actualUrlStr)) \o U("/")
        IN  /\ response.body = Rerooted(t, 1, root)
            /\ (\A i \in 1..Len(t) : ~RootRelativeAt(t, i)) => response.body = t

\* the src='/ of a data-src attribute is rewritten as that of a src attribute is
C6_Witness ==
    /\ HtmlRewritten
    /\ text(upstream.response) = U("data-src='/")
    /\ request.url.protocol = U("http:")
    /\ response.body = U("data-src='http://proxy.example/http://a.b:8080/")

\* a fetch was issued for an authorized request
Forwarded == Worker /\ pc \in {"fetch", "done"} /\ Len(sent) = 1

isCfName(name) ==
    /\ Len(name) >= 3
    /\ lowerChar(name[1]) = 99 /\ lowerChar(name[2]) = 102 /\ name[3] = 45

FromUpstream == Done /\ Worker /\ ~upstream.fails /\ line \in {127, 160, 185}

FixedNames ==
    {U("cache-control"), U("pragma"), U("expires"), U("access-control-allow-origin"),
     U("access-control-allow-methods"), U("access-control-allow-headers")}

\* the entries of header list h whose names are not in set N
without(h, N) == SelectSeq(entries(h), LAMBDA e : e[1] \notin N)

\* C8: a response built from an upstream response keeps the upstream status and
\* the upstream headers, except that the three no-cache and the three CORS
\* headers carry the proxy's values whatever the upstream sent (and Location is
\* rewritten on a redirect); the body is unchanged unless the status is no
\* redirect and Content-Type contains text/html.
C8_UpstreamFrame ==
    FromUpstream =>
        LET up == upstream.response
            isRedirect == up.status \in {301, 302, 303, 307, 308}
            rewritten == IF line = 185 THEN {U("location")} ELSE {}
        IN  /\ response.status = up.status
            /\ response.statusText = up.statusText
            /\ NoCacheSet /\ CorsSet
            /\ without(response.headers, FixedNames \cup rewritten)
                 = without(up.headers, FixedNames \cup rewritten)
            /\ line = 185 <=> (isRedirect /\ sentUp("Location") \notin {Null, <<>>})
            /\ line = 185 => got("Location") \notin {Null, sentUp("Location")}
            /\ (isRedirect \/ ~includes(orEmpty(sentUp("Content-Type")), U("text/html")))
                  => response.body = up.body

\* a 404 with its own Cache-Control and two cookies comes back with no-store
C8_Witness ==
    /\ FromUpstream
    /\ upstream.response.status = 404 /\ response.status = 404
    /\ upstream.response.headers = <<Hdr("Cache-Control", "max-age=60"), Hdr("Set-Cookie", "a=1")>>
    /\ got("Cache-Control") = U("no-store")
    /\ got("Set-Cookie") = U("a=1")
    /\ response.body = U("hello")

IsJson500(message) ==
    /\ response.status = 500
    /\ got("Content-Type") = U("application/json; charset=utf-8")
    /\ response.body = stringifyError(message)

\* C9: handleRequest always returns a response and never throws; an undecodable
\* path or an unparsable target gives, without any fetch, status 500 with JSON
\* body {"error": <message>}; a failed fetch gives the same form with the
\* underlying message.
C9_AlwaysResponds ==
    (Done /\ Worker) =>
        /\ uncaught = NoError
        /\ response # NoResponse
        /\ (Authorized /\ request.url.pathname # U("/")) =>
              LET d == decodeURIComponent(Tail(request.url.pathname))
              IN  /\ d = URIError =>
                        /\ sent = <<>>
                        /\ response.body = U("{\"error\":\"URI malformed\"}")
                        /\ IsJson500(U("URI malformed"))
                  /\ (d # URIError /\ parseURL(actualUrlStr) = InvalidURL) =>
                        /\ sent = <<>>
                        /\ IsJson500(U("Invalid URL: ") \o actualUrlStr)
                  /\ (sent # <<>> /\ upstream.fails) =>
                        IsJson500(IF upstream.error.message # <<>>
                                  THEN upstream.error.message
                                  ELSE upstream.error.name)

\* /% cannot be decoded: 500 JSON and no fetch
C9_Witness ==
    /\ Done /\ Worker /\ Authorized
    /\ request.url.pathname = U("/%")
    /\ sent = <<>>
    /\ response.status = 500
    /\ response.body = U("{\"error\":\"URI malformed\"}")

\* C10: an inbound request causes at most one fetch: none for "/", exactly one
\* for an authorized request with a well-formed target, not repeated when it
\* fails and not followed by another when the upstream answers 3xx (redirect:
\* "manual"); the fetch carries the inbound body iff the method is neither GET
\* nor HEAD.
C10_OneFetch ==
    Worker =>
        /\ Len(sent) <= 1
        /\ request.url.pathname = U("/") => sent = <<>>
        /\ sent # <<>> => pc \in {"fetch", "done"} /\ Authorized
        /\ (/\ pc \in {"fetch", "done"} /\ Authorized
            /\ request.url.pathname # U("/")
            /\ decodeURIComponent(Tail(request.url.pathname)) # URIError
            /\ parseURL(actualUrlStr) # InvalidURL)
           => /\ Len(sent) = 1
              /\ sent[1].redirect = "manual"
              /\ sent[1].method = request.method
              /\ sent[1].hasBody <=> request.method \notin {"GET", "HEAD"}
              /\ sent[1].body = (IF request.method \in {"GET", "HEAD"} THEN Null
                                 ELSE request.body)

\* a POST answered 302: one fetch, with the body, and no second one
C10_Witness ==
    /\ Done /\ Worker
    /\ request.method = "POST" /\ request.body = U("a=1")
    /\ upstream.response.status = 302
    /\ Len(sent) = 1 /\ sent[1].hasBody /\ sent[1].body = U("a=1")
    /\ response.status = 302
====
